---- MODULE Spec2Model ----
(***************************************************************************)
(* The BlogSummarizer component of src/src/App.tsx: the four pieces of     *)
(* React state, the submit handler with its two awaited network calls,     *)
(* the title extractor and the URL validator.                              *)
(*                                                                         *)
(* Strings are sequences of one-character strings, so that trim, split     *)
(* and URL parsing are computed and not assumed.  A step of the model is   *)
(* one run-to-completion segment of the JavaScript event loop: the part    *)
(* of handleSubmit up to its first await, the arrival of a response, or    *)
(* the continuation after an await.  The setState calls of one segment     *)
(* are applied together.                                                   *)
(***************************************************************************)
EXTENDS Integers, Sequences, FiniteSets, TLC

VARIABLES url, isLoading, summary, error, toast, runs, resubmit

vars == <<url, isLoading, summary, error, toast, runs, resubmit>>

(* ------------------------------ bounds -------------------------------- *)

\* longest text typed into the URL input
MaxUrlLen == 3
\* longest text of a fetched page's <title> element
MaxTitleLen == 1
\* cap on the handleSubmit invocations pending at once
MaxRuns == 2

(* ------------------------------ strings ------------------------------- *)

Strs(alphabet, n) == UNION {[1..k -> alphabet] : k \in 0..n}

\* the JavaScript value undefined, where a string was expected
Undefined == <<"undefined">>

SP == " "
TAB == "\t"
Whitespace == {SP, TAB}

RECURSIVE TrimStart(_)
TrimStart(s) ==
  IF s # <<>> /\ Head(s) \in Whitespace THEN TrimStart(Tail(s)) ELSE s

RECURSIVE TrimEnd(_)
TrimEnd(s) ==
  IF s # <<>> /\ s[Len(s)] \in Whitespace
    THEN TrimEnd(SubSeq(s, 1, Len(s) - 1))
    ELSE s

\* String.prototype.trim
Trim(s) == TrimEnd(TrimStart(s))

\* String.prototype.split(sep) for a one-character separator: the pieces
\* between the occurrences of sep, empty pieces included.
RECURSIVE Split(_, _)
Split(s, sep) ==
  IF \A i \in 1..Len(s) : s[i] # sep
    THEN <<s>>
    ELSE LET k == CHOOSE i \in 1..Len(s) :
                    s[i] = sep /\ \A j \in 1..(i - 1) : s[j] # sep
         IN <<SubSeq(s, 1, k - 1)>> \o Split(SubSeq(s, k + 1, Len(s)), sep)

\* Math.ceil(n / d) for n >= 0, d > 0
Ceil(n, d) == (n + d - 1) \div d

WordsPerMinute == 200

(* ------------------------------ the view ------------------------------ *)

UrlChars == {"a", ":", SP}
UrlInputs == Strs(UrlChars, MaxUrlLen)

SchemeChars == {"a"}

\* new URL(string) succeeds.  The parser strips leading and trailing
\* spaces, then needs a scheme: a letter, then scheme characters up to the
\* first ":".  With no base URL anything else is a TypeError.  The letters
\* of the alphabet spell no special scheme, so what follows the colon is an
\* opaque path and never fails.
isValidUrl(s) ==
  LET t == Trim(s)
  IN \E k \in 2..Len(t) :
       /\ t[k] = ":"
       /\ \A j \in 1..(k - 1) : t[j] \in SchemeChars

ToastNone == "none"
ToastEnterUrl == "Please enter a blog URL"
ToastInvalidUrl == "Please enter a valid URL"
ToastSuccess == "Blog summarized successfully!"
ToastFailed == "Failed to process blog"

NoSummary == <<>>

\* <Input disabled={isLoading}>
\* variant: the input is never disabled
InputDisabled_Never == FALSE

InputDisabled == isLoading

\* <Button type="submit" disabled={isLoading || !url.trim()}>
ButtonDisabled == isLoading \/ Trim(url) = <<>>

(* --------------------------- title extractor -------------------------- *)

BlogPost == <<"B", "l", "o", "g", " ", "P", "o", "s", "t">>
Untitled == <<"U", "n", "t", "i", "t", "l", "e", "d">>

TitleChars == {"T", SP}
TitleTexts == Strs(TitleChars, MaxTitleLen)

\* What the proxy call can come to.  network_error: fetch rejects.
\* bad_json: response.json() rejects.  json_null: the body is the JSON
\* value null.  no_contents: a JSON object without a contents field.
\* html: contents holds a page, title its <title> text or Undefined when
\* the page has no such element.  ok is the response's HTTP ok flag.
ProxyOutcomes ==
  {[kind |-> "network_error", ok |-> FALSE, title |-> Undefined]}
  \cup {[kind |-> k, ok |-> o, title |-> Undefined] :
          k \in {"bad_json", "json_null", "no_contents"}, o \in BOOLEAN}
  \cup {[kind |-> "html", ok |-> o, title |-> t] :
          o \in BOOLEAN, t \in TitleTexts \cup {Undefined}}

NoProxy == [kind |-> "none", ok |-> FALSE, title |-> Undefined]

NoThrown == [isError |-> FALSE, message |-> ""]

\* the TypeError or SyntaxError of a rejected fetch, an undecodable body,
\* or a property read on null or undefined
TypeErrorValue == [isError |-> TRUE, message |-> "TypeError"]

\* the body of extractTitle's try block
extractTitleTry(p) ==
  IF p.kind \in {"network_error", "bad_json", "json_null"}
    THEN [threw |-> TRUE, value |-> Undefined, thrown |-> TypeErrorValue]
    ELSE LET text == IF p.kind = "html" THEN p.title ELSE Undefined
             title == IF text = Undefined \/ text = <<>> THEN Untitled ELSE text
         IN [threw |-> FALSE, value |-> Trim(title), thrown |-> NoThrown]

\* variant: no catch block
extractTitle_NoCatch(p) == extractTitleTry(p)

extractTitle(p) ==
  LET r == extractTitleTry(p)
  IN IF r.threw
       THEN [threw |-> FALSE, value |-> BlogPost, thrown |-> NoThrown]
       ELSE r

(* ------------------------- summarization adapter ---------------------- *)

SummaryTexts ==
  { <<>>,
    <<SP>>,
    <<"a", SP, "b", SP, "c", SP, "d">>,
    <<"a", SP, SP, "b">>,
    <<"a", TAB, "b">> }

UrduTexts == { <<"u", SP, "v">> }

\* What the webhook can answer.
WebhookResponses ==
  {[kind |-> k, summary |-> Undefined, urduSummary |-> Undefined] :
     k \in {"network_error", "non_2xx", "malformed_json"}}
  \cup {[kind |-> "json", summary |-> s, urduSummary |-> u] :
          s \in SummaryTexts \cup {Undefined}, u \in UrduTexts \cup {Undefined}}

\* What a rejected call can carry: an Error with a message, an Error with
\* an empty message (new Error()), or a value that is no Error.
ThrownValues ==
  { [isError |-> TRUE, message |-> "Webhook request failed"],
    [isError |-> TRUE, message |-> ""],
    [isError |-> FALSE, message |-> ""] }

NoData == [summary |-> Undefined, urduSummary |-> Undefined]
NoWebhook == [kind |-> "none", summary |-> Undefined, urduSummary |-> Undefined]
NoResult == [threw |-> FALSE, data |-> NoData, thrown |-> NoThrown]

\* scrapeAndSummarize: the parsed object on success; a failure on a
\* network error, a non-2xx status, a malformed body or a missing field.
scrapeAndSummarize(w, thrown) ==
  IF w.kind = "json" /\ w.summary # Undefined /\ w.urduSummary # Undefined
    THEN [threw |-> FALSE,
          data |-> [summary |-> w.summary, urduSummary |-> w.urduSummary],
          thrown |-> NoThrown]
    ELSE [threw |-> TRUE, data |-> NoData, thrown |-> thrown]

(* ----------------------------- the handler ---------------------------- *)

\* One pending invocation of handleSubmit: url is the value its closure
\* holds, pc the await it is suspended at, titleReqs and sumReqs the
\* requests it has issued.
NewRun(u) ==
  [pc |-> "title_wait", url |-> u, proxy |-> NoProxy, title |-> Undefined,
   webhook |-> NoWebhook, result |-> NoResult, titleReqs |-> 1, sumReqs |-> 0]

Remove(s, i) == SubSeq(s, 1, i - 1) \o SubSeq(s, i + 1, Len(s))

\* the summaryData object literal
summaryData(u, title, data) ==
  [url |-> u,
   title |-> title,
   summary |-> data.summary,
   urduSummary |-> data.urduSummary,
   wordCount |-> Len(Split(data.summary, SP)),
   readingTime |-> Ceil(Len(Split(data.summary, SP)), WordsPerMinute)]

\* setError(error instanceof Error ? error.message : 'Failed to process blog')
errorMessage(thrown) ==
  IF thrown.isError THEN thrown.message ELSE "Failed to process blog"

Init ==
  /\ url = <<>>
  /\ isLoading = FALSE
  /\ summary = NoSummary
  /\ error = ""
  /\ toast = ToastNone
  /\ runs = <<>>
  /\ resubmit = FALSE

\* onChange={(e) => setUrl(e.target.value)}
SetUrl ==
  /\ ~InputDisabled
  /\ \E s \in UrlInputs : url' = s
  /\ UNCHANGED <<isLoading, summary, error, toast, runs, resubmit>>

\* variant: without setSummary(null)
handleSubmit_KeepResult ==
  IF Trim(url) = <<>>
    THEN /\ toast' = ToastEnterUrl
         /\ UNCHANGED <<url, isLoading, summary, error, runs, resubmit>>
    ELSE IF ~isValidUrl(url)
      THEN /\ toast' = ToastInvalidUrl
           /\ UNCHANGED <<url, isLoading, summary, error, runs, resubmit>>
      ELSE /\ Len(runs) < MaxRuns
           /\ isLoading' = TRUE
           /\ error' = ""
           /\ resubmit' = (summary # NoSummary)
           /\ runs' = Append(runs, NewRun(url))
           /\ UNCHANGED <<url, toast, summary>>

\* variant: without setError('')
handleSubmit_KeepError ==
  IF Trim(url) = <<>>
    THEN /\ toast' = ToastEnterUrl
         /\ UNCHANGED <<url, isLoading, summary, error, runs, resubmit>>
    ELSE IF ~isValidUrl(url)
      THEN /\ toast' = ToastInvalidUrl
           /\ UNCHANGED <<url, isLoading, summary, error, runs, resubmit>>
      ELSE /\ Len(runs) < MaxRuns
           /\ isLoading' = TRUE
           /\ summary' = NoSummary
           /\ resubmit' = (summary # NoSummary)
           /\ runs' = Append(runs, NewRun(url))
           /\ UNCHANGED <<url, toast, error>>

\* variant: without the isValidUrl check
handleSubmit_NoUrlCheck ==
  IF Trim(url) = <<>>
    THEN /\ toast' = ToastEnterUrl
         /\ UNCHANGED <<url, isLoading, summary, error, runs, resubmit>>
    ELSE /\ Len(runs) < MaxRuns
         /\ isLoading' = TRUE
         /\ error' = ""
         /\ summary' = NoSummary
         /\ resubmit' = (summary # NoSummary)
         /\ runs' = Append(runs, NewRun(url))
         /\ UNCHANGED <<url, toast>>

\* variant: a result on display for the same URL is served again
handleSubmit_Cached ==
  IF Trim(url) = <<>>
    THEN /\ toast' = ToastEnterUrl
         /\ UNCHANGED <<url, isLoading, summary, error, runs, resubmit>>
    ELSE IF ~isValidUrl(url)
      THEN /\ toast' = ToastInvalidUrl
           /\ UNCHANGED <<url, isLoading, summary, error, runs, resubmit>>
      ELSE IF summary # NoSummary /\ summary[1].url = url
        THEN /\ toast' = ToastSuccess
             /\ UNCHANGED <<url, isLoading, summary, error, runs, resubmit>>
        ELSE /\ Len(runs) < MaxRuns
             /\ isLoading' = TRUE
             /\ error' = ""
             /\ summary' = NoSummary
             /\ resubmit' = (summary # NoSummary)
             /\ runs' = Append(runs, NewRun(url))
             /\ UNCHANGED <<url, toast>>

\* handleSubmit up to its first await: the two checks, the three setState
\* calls, and extractTitle up to the proxy fetch it issues.
handleSubmit ==
  IF Trim(url) = <<>>
    THEN /\ toast' = ToastEnterUrl
         /\ UNCHANGED <<url, isLoading, summary, error, runs, resubmit>>
    ELSE IF ~isValidUrl(url)
      THEN /\ toast' = ToastInvalidUrl
           /\ UNCHANGED <<url, isLoading, summary, error, runs, resubmit>>
      ELSE /\ Len(runs) < MaxRuns
           /\ isLoading' = TRUE
           /\ error' = ""
           /\ summary' = NoSummary
           /\ resubmit' = (summary # NoSummary)
           /\ runs' = Append(runs, NewRun(url))
           /\ UNCHANGED <<url, toast>>

\* a click on the submit button
ClickSubmit ==
  /\ ~ButtonDisabled
  /\ handleSubmit

\* the Enter key in the URL input, or any other submit event that reaches
\* the form while its input is enabled.  A browser refuses the implicit
\* submission of a form whose submit button is disabled, and checks a
\* type="url" input itself; the model lets the event through, so that
\* both checks of handleSubmit are exercised.
EnterSubmit ==
  /\ ~InputDisabled
  /\ handleSubmit

\* the proxy call of run i settles
ProxyRespond(i) ==
  /\ runs[i].pc = "title_wait"
  /\ \E p \in ProxyOutcomes :
       runs' = [runs EXCEPT ![i].proxy = p, ![i].pc = "title_resp"]
  /\ UNCHANGED <<url, isLoading, summary, error, toast, resubmit>>

\* the rest of extractTitle, then handleSubmit up to its second await:
\* the request scrapeAndSummarize issues.  A throw of extractTitle would
\* land in handleSubmit's catch.
ExtractTitleDone(i) ==
  /\ runs[i].pc = "title_resp"
  /\ LET r == extractTitle(runs[i].proxy)
     IN IF r.threw
          THEN /\ error' = errorMessage(r.thrown)
               /\ toast' = ToastFailed
               /\ isLoading' = FALSE
               /\ runs' = Remove(runs, i)
               /\ UNCHANGED <<url, summary, resubmit>>
          ELSE /\ runs' = [runs EXCEPT ![i].title = r.value,
                                       ![i].sumReqs = @ + 1,
                                       ![i].pc = "sum_wait"]
               /\ UNCHANGED <<url, isLoading, summary, error, toast, resubmit>>

\* the webhook call of run i settles
WebhookRespond(i) ==
  /\ runs[i].pc = "sum_wait"
  /\ \E w \in WebhookResponses, t \in ThrownValues :
       runs' = [runs EXCEPT ![i].webhook = w,
                            ![i].result = scrapeAndSummarize(w, t),
                            ![i].pc = "sum_resp"]
  /\ UNCHANGED <<url, isLoading, summary, error, toast, resubmit>>

\* variant: a failed summarization call is tried again
SummarizeDone_Retry(i) ==
  /\ runs[i].pc = "sum_resp"
  /\ LET r == runs[i].result
     IN IF r.threw /\ runs[i].sumReqs < 3
          THEN /\ runs' = [runs EXCEPT ![i].sumReqs = @ + 1, ![i].pc = "sum_wait"]
               /\ UNCHANGED <<url, isLoading, summary, error, toast, resubmit>>
          ELSE IF r.threw
            THEN /\ error' = errorMessage(r.thrown)
                 /\ toast' = ToastFailed
                 /\ isLoading' = FALSE
                 /\ runs' = Remove(runs, i)
                 /\ UNCHANGED <<url, summary, resubmit>>
            ELSE /\ summary' = <<summaryData(runs[i].url, runs[i].title, r.data)>>
                 /\ toast' = ToastSuccess
                 /\ isLoading' = FALSE
                 /\ runs' = Remove(runs, i)
                 /\ UNCHANGED <<url, error, resubmit>>

\* handleSubmit after its second await: the record, or the catch block,
\* and the finally block.
SummarizeDone(i) ==
  /\ runs[i].pc = "sum_resp"
  /\ LET r == runs[i].result
         thrown == IF r.threw THEN r.thrown ELSE TypeErrorValue
     IN IF r.threw \/ r.data.summary = Undefined
          THEN /\ error' = errorMessage(thrown)
               /\ toast' = ToastFailed
               /\ isLoading' = FALSE
               /\ runs' = Remove(runs, i)
               /\ UNCHANGED <<url, summary, resubmit>>
          ELSE /\ summary' = <<summaryData(runs[i].url, runs[i].title, r.data)>>
               /\ toast' = ToastSuccess
               /\ isLoading' = FALSE
               /\ runs' = Remove(runs, i)
               /\ UNCHANGED <<url, error, resubmit>>

Next ==
  \/ SetUrl
  \/ ClickSubmit
  \/ EnterSubmit
  \/ \E i \in 1..Len(runs) : ProxyRespond(i)
  \/ \E i \in 1..Len(runs) : ExtractTitleDone(i)
  \/ \E i \in 1..Len(runs) : WebhookRespond(i)
  \/ \E i \in 1..Len(runs) : SummarizeDone(i)

Spec == Init /\ [][Next]_vars

(* --------------------------- request states --------------------------- *)

Idle == ~isLoading /\ summary = NoSummary /\ error = ""
Loading == isLoading /\ summary = NoSummary /\ error = ""
Success == ~isLoading /\ summary # NoSummary /\ error = ""
Failed == ~isLoading /\ summary = NoSummary /\ error # ""

(* ------------------------------- claims ------------------------------- *)

Blank(s) == Trim(s) = <<>>

\* a step that ends the pending invocation i
Ends(i) == i \in 1..Len(runs) /\ runs' = Remove(runs, i)

\* C1: a submit of an empty, whitespace-only or unparsable URL issues no
\* request and leaves isLoading, summary and error as they were; it only
\* raises the matching notification.
C1_InvalidSubmitRejected ==
  [][ ((Blank(url) \/ ~isValidUrl(url)) /\ url' = url)
        => /\ runs' = runs
           /\ isLoading' = isLoading
           /\ summary' = summary
           /\ error' = error
           /\ toast' = IF Blank(url) THEN ToastEnterUrl ELSE ToastInvalidUrl ]_vars

\* an unparsable URL was rejected while a result was on display
C1_Witness ==
  /\ toast = ToastInvalidUrl
  /\ ~Blank(url) /\ ~isValidUrl(url)
  /\ Success /\ runs = <<>>

\* C2: whenever the summarization call of a submission throws, whatever the
\* thrown value, the submission ends in Failed: error non-empty, summary
\* null, isLoading false.
C2_ThrowEndsFailed ==
  [][ \A i \in 1..Len(runs) :
        (runs[i].pc = "sum_resp" /\ runs[i].result.threw /\ Ends(i))
          => (~isLoading' /\ summary' = NoSummary /\ error' # "") ]_vars

LacksField(w) ==
  w.kind = "json" /\ (w.summary = Undefined \/ w.urduSummary = Undefined)

\* C3: a summarization response that lacks summary or urduSummary ends the
\* submission in Failed, never in Success, and no record with an absent
\* summary or urduSummary is ever stored.
C3_MissingFieldEndsFailed ==
  /\ [](summary # NoSummary =>
          summary[1].summary # Undefined /\ summary[1].urduSummary # Undefined)
  /\ [][ \A i \in 1..Len(runs) :
           (runs[i].pc = "sum_resp" /\ LacksField(runs[i].webhook) /\ Ends(i))
             => (~isLoading' /\ summary' = NoSummary /\ error' # "") ]_vars

\* the ways title extraction can fail
TitleThrows(p) == p.kind \in {"network_error", "bad_json", "json_null"}
TitleMissing(p) ==
  p.kind = "no_contents" \/ (p.kind = "html" /\ p.title \in {Undefined, <<>>})
TitleFails(p) == TitleThrows(p) \/ TitleMissing(p) \/ (p.kind # "none" /\ ~p.ok)

TitleDone(r) == r.pc \in {"sum_wait", "sum_resp"}

\* C4 as stated: every failure of title extraction yields "Blog Post".
C4_AnyFailureYieldsBlogPost ==
  \A i \in 1..Len(runs) :
    (TitleDone(runs[i]) /\ TitleFails(runs[i].proxy)) => runs[i].title = BlogPost

\* C4 amended: extractTitle never throws; it yields "Blog Post" when the
\* fetch or the decoding of the body throws and "Untitled" when the decoded
\* page has no title element or an empty one; the HTTP status is not
\* looked at.  A submission ends only after its summarization call has
\* settled, and if that call succeeded it ends in Success with the title
\* extractTitle gave.
C4_TitleFallbacks ==
  /\ [](\A i \in 1..Len(runs) :
          TitleDone(runs[i]) =>
            /\ TitleThrows(runs[i].proxy) => runs[i].title = BlogPost
            /\ TitleMissing(runs[i].proxy) => runs[i].title = Untitled
            /\ ~TitleThrows(runs[i].proxy) /\ ~TitleMissing(runs[i].proxy)
                 => runs[i].title = Trim(runs[i].proxy.title))
  /\ [][ \A i \in 1..Len(runs) :
           Ends(i) =>
             /\ runs[i].pc = "sum_resp"
             /\ ~runs[i].result.threw
                  => /\ ~isLoading' /\ error' = "" /\ summary' # NoSummary
                     /\ summary'[1].title = runs[i].title ]_vars

\* a submission whose title extraction fell back has reached Success
C4_Witness == Success /\ summary[1].title = BlogPost /\ runs = <<>>

\* the whitespace-separated tokens of s: its maximal runs of characters
\* that are no whitespace
WhitespaceTokens(s) ==
  Cardinality({i \in 1..Len(s) :
                 s[i] \notin Whitespace /\ (i = 1 \/ s[i - 1] \in Whitespace)})

\* C5: the stored wordCount is the number of whitespace-separated tokens of
\* the summary and readingTime is ceil(wordCount / 200).
C5_WordCountIsTokenCount ==
  summary # NoSummary =>
    /\ summary[1].wordCount = WhitespaceTokens(summary[1].summary)
    /\ summary[1].readingTime = Ceil(summary[1].wordCount, 200)

\* C6: a submit of a well-formed URL from Idle, Failed or Success enters
\* Loading in the step that issues its first request, and the request state
\* becomes Success or Failed only from Loading.
C6_SubmitEntersLoading ==
  [][ /\ (Len(runs') > Len(runs) /\ (Idle \/ Failed \/ Success))
           => (isLoading' /\ error' = "" /\ summary' = NoSummary)
      /\ (/\ <<isLoading, summary, error>>' # <<isLoading, summary, error>>
          /\ ~isLoading' /\ (summary' # NoSummary \/ error' # ""))
           => Loading ]_vars

\* a submit made from Success has entered Loading, its first request pending
C6_Witness ==
  Loading /\ resubmit /\ Len(runs) = 1 /\ runs[1].pc = "title_wait"

\* C7: a submit of a well-formed URL made from Success starts both calls
\* anew, and the record it stores on success is built from this
\* submission's URL, title and response alone.
C7_ResubmitReplaces ==
  [][ /\ (Success /\ runs = <<>> /\ ~Blank(url) /\ isValidUrl(url) /\ url' = url)
           => /\ Len(runs') = 1
              /\ runs'[1].titleReqs = 1 /\ runs'[1].sumReqs = 0
              /\ summary' = NoSummary
      /\ \A i \in 1..Len(runs) :
           (resubmit /\ Ends(i) /\ ~runs[i].result.threw)
             => /\ runs[i].titleReqs = 1 /\ runs[i].sumReqs = 1
                /\ summary' =
                     << [url |-> runs[i].url,
                         title |-> runs[i].title,
                         summary |-> runs[i].webhook.summary,
                         urduSummary |-> runs[i].webhook.urduSummary,
                         wordCount |-> Len(Split(runs[i].webhook.summary, SP)),
                         readingTime |->
                           Ceil(Len(Split(runs[i].webhook.summary, SP)), 200)] >> ]_vars

\* a submission made from Success has itself ended in Success
C7_Witness == Success /\ resubmit /\ runs = <<>>

\* C8: a submission issues at most one title request and at most one
\* summarization request, and the summarization request only once the title
\* call has completed.
C8_SequentialSingleAttempt ==
  \A i \in 1..Len(runs) :
    /\ runs[i].titleReqs = 1
    /\ runs[i].sumReqs <= 1
    /\ runs[i].sumReqs = 1 <=> TitleDone(runs[i])
    /\ TitleDone(runs[i]) => (runs[i].proxy # NoProxy /\ runs[i].title # Undefined)

\* the summarization call of a submission has failed after its single attempt
C8_Witness ==
  \E i \in 1..Len(runs) :
    runs[i].pc = "sum_resp" /\ runs[i].result.threw /\ runs[i].sumReqs = 1

\* C9: isLoading, summary and error always encode exactly one of Idle,
\* Loading, Success and Failed.
C9_OneRequestState ==
  Cardinality({s \in {"Idle", "Loading", "Success", "Failed"} :
                 \/ s = "Idle" /\ Idle
                 \/ s = "Loading" /\ Loading
                 \/ s = "Success" /\ Success
                 \/ s = "Failed" /\ Failed}) = 1

\* a submission made from Success has ended in Failed
C9_Witness == Failed /\ resubmit /\ toast = ToastFailed /\ runs = <<>>

\* C10: at most one submission is pending; while one is, the state is
\* loading and both the input and the submit button are disabled.
C10_OneInFlight ==
  /\ Len(runs) <= 1
  /\ isLoading <=> runs # <<>>
  /\ isLoading => (InputDisabled /\ ButtonDisabled)

\* a submission is pending at its summarization call, the form disabled
C10_Witness ==
  Len(runs) = 1 /\ runs[1].pc = "sum_wait" /\ InputDisabled /\ ButtonDisabled

====
